---- MODULE Spec2Model ----
(***************************************************************************)
(* A model of src/watermark.py: WatermarkTool.extract_exif_datetime,       *)
(* get_position_coordinates, parse_color, add_watermark and                *)
(* process_directory.                                                      *)
(*                                                                         *)
(* Text (file names, colour specifications, EXIF values) is a sequence of  *)
(* one-character strings, so that case conversion, prefix/suffix tests,    *)
(* splitting and number parsing are computed character by character.      *)
(***************************************************************************)
EXTENDS Integers, Sequences, FiniteSets, TLC

VARIABLES
    caseInsensitive,  \* pathlib's glob flavour: TRUE on Windows, FALSE on POSIX
    dir,              \* the input directory tree: path -> file
    cfg,              \* the run's color / position / opacity arguments
    pc,               \* position inside the call being modelled
    image_files,      \* process_directory's list image_files
    idx,              \* index (1-based) of the loop's next element
    success_count,
    fail_count,
    outputs,          \* output directory: file name -> "full" | "partial"
    extract_calls,    \* list indices for which extract_exif_datetime was called
    watermark_calls,  \* list indices for which add_watermark was called
    retval,           \* process_directory's return value, or "none"
    arg,              \* argument of a single call (SpecExtract, SpecRender)
    ret               \* result of that call

vars == <<caseInsensitive, dir, cfg, pc, image_files, idx, success_count,
          fail_count, outputs, extract_calls, watermark_calls, retval, arg, ret>>

batchVarsButPc == <<caseInsensitive, dir, cfg, image_files, idx, success_count,
                    fail_count, outputs, extract_calls, watermark_calls, retval>>

(***************************************************************************)
(* Bounds of the model.                                                    *)
(***************************************************************************)
\* Largest number of entries of the input directory tree.
MaxFiles == 3

\* Opacity is k / OpacityDenominator for k in 0..OpacityDenominator.
OpacityDenominator == 100

(***************************************************************************)
(* Characters and strings (str.lower, str.upper, startswith, endswith,     *)
(* split, strip, int).                                                     *)
(***************************************************************************)
LowerLetters ==
    <<"a","b","c","d","e","f","g","h","i","j","k","l","m",
      "n","o","p","q","r","s","t","u","v","w","x","y","z">>

UpperLetters ==
    <<"A","B","C","D","E","F","G","H","I","J","K","L","M",
      "N","O","P","Q","R","S","T","U","V","W","X","Y","Z">>

Digits == <<"0","1","2","3","4","5","6","7","8","9">>

IndexIn(c, seq) ==
    IF \E i \in 1..Len(seq) : seq[i] = c
    THEN CHOOSE i \in 1..Len(seq) : seq[i] = c
    ELSE 0

\* str.lower and str.upper on one character, as tables over the letters.
ToLower == [c \in {UpperLetters[i] : i \in 1..26} |-> LowerLetters[IndexIn(c, UpperLetters)]]

ToUpper == [c \in {LowerLetters[i] : i \in 1..26} |-> UpperLetters[IndexIn(c, LowerLetters)]]

LowerChar(c) == IF c \in DOMAIN ToLower THEN ToLower[c] ELSE c

UpperChar(c) == IF c \in DOMAIN ToUpper THEN ToUpper[c] ELSE c

Lower(s) == [i \in 1..Len(s) |-> LowerChar(s[i])]

Upper(s) == [i \in 1..Len(s) |-> UpperChar(s[i])]

StartsWith(s, p) == Len(p) <= Len(s) /\ SubSeq(s, 1, Len(p)) = p

EndsWith(s, p) == Len(p) <= Len(s) /\ SubSeq(s, Len(s) - Len(p) + 1, Len(s)) = p

\* str.split(sep) for a one-character separator: always at least one part.
RECURSIVE Split(_, _)
Split(s, sep) ==
    IF \E i \in 1..Len(s) : s[i] = sep
    THEN LET i == CHOOSE k \in 1..Len(s) :
                      s[k] = sep /\ \A j \in 1..(k - 1) : s[j] # sep
         IN  <<SubSeq(s, 1, i - 1)>> \o Split(SubSeq(s, i + 1, Len(s)), sep)
    ELSE <<s>>

\* str.strip() for the whitespace the inputs hold (the space).
RECURSIVE Strip(_)
Strip(s) ==
    IF Len(s) > 0 /\ s[1] = " " THEN Strip(Tail(s))
    ELSE IF Len(s) > 0 /\ s[Len(s)] = " " THEN Strip(SubSeq(s, 1, Len(s) - 1))
    ELSE s

\* The value of each digit of base 16, in either case.
HexDigits ==
    [c \in {Digits[i] : i \in 1..10} |-> IndexIn(c, Digits) - 1]
        @@ [c \in {LowerLetters[i] : i \in 1..6} |-> 9 + IndexIn(c, LowerLetters)]
        @@ [c \in {UpperLetters[i] : i \in 1..6} |-> 9 + IndexIn(c, UpperLetters)]

IsDigit(c) == c \in DOMAIN HexDigits /\ HexDigits[c] < 10

HexValue(c) == IF c \in DOMAIN HexDigits THEN HexDigits[c] ELSE -1

RECURSIVE NumberIn(_, _)
NumberIn(s, base) ==
    IF Len(s) = 0 THEN 0
    ELSE NumberIn(SubSeq(s, 1, Len(s) - 1), base) * base + HexValue(s[Len(s)])

\* The digits of a literal after int() stripped blanks and a sign.
Unsigned(s) ==
    LET t == Strip(s)
    IN  IF Len(t) > 0 /\ t[1] \in {"+", "-"} THEN Tail(t) ELSE t

\* int(s, base) raises ValueError unless s is, after stripping blanks and one
\* sign, a non-empty run of digits of the base.
IntRaises(s, base) ==
    \/ Len(Unsigned(s)) = 0
    \/ \E i \in 1..Len(Unsigned(s)) :
          HexValue(Unsigned(s)[i]) < 0 \/ HexValue(Unsigned(s)[i]) >= base

IntOf(s, base) ==
    LET t == Strip(s)
        n == NumberIn(Unsigned(s), base)
    IN  IF Len(t) > 0 /\ t[1] = "-" THEN 0 - n ELSE n

(***************************************************************************)
(* pathlib: Path.suffix, Path.stem, Path.glob('*' + ext).                   *)
(***************************************************************************)
\* str.rfind('.') + 1: the position of the last dot, 0 when there is none.
RFindDot(name) ==
    IF \E i \in 1..Len(name) : name[i] = "."
    THEN CHOOSE i \in 1..Len(name) :
             name[i] = "." /\ \A j \in (i + 1)..Len(name) : name[j] # "."
    ELSE 0

\* Path.suffix: from the last dot, unless the name starts or ends with it.
suffix(name) ==
    LET i == RFindDot(name)
    IN  IF 1 < i /\ i < Len(name) THEN SubSeq(name, i, Len(name)) ELSE <<>>

\* Path.stem: the name without its suffix.
stem(name) ==
    LET i == RFindDot(name)
    IN  IF 1 < i /\ i < Len(name) THEN SubSeq(name, 1, i - 1) ELSE name

\* self.supported_formats. It is a set, iterated in an order Python does not
\* fix; the order written here is one of them, and only the order of
\* image_files depends on it.
supported_formats ==
    << <<".","j","p","g">>, <<".","j","p","e","g">>, <<".","p","n","g">>,
       <<".","t","i","f","f">>, <<".","t","i","f">>, <<".","b","m","p">> >>

\* A pattern that lost its extension: '*' matches every name.
GlobMatchesAnything(name, ext, insensitive) == TRUE

\* fnmatch of the pattern '*' + ext against a name: the name ends with ext.
\* pathlib compiles the pattern with re.IGNORECASE on Windows only.
GlobMatches(name, ext, insensitive) ==
    IF insensitive THEN EndsWith(Lower(name), Lower(ext)) ELSE EndsWith(name, ext)

(***************************************************************************)
(* Dates: datetime.strptime(s, '%Y:%m:%d %H:%M:%S') and strftime.          *)
(***************************************************************************)
AllDigits(s) == Len(s) > 0 /\ \A i \in 1..Len(s) : IsDigit(s[i])

IsLeap(y) == (y % 4 = 0 /\ y % 100 # 0) \/ y % 400 = 0

DaysInMonth(y, m) ==
    IF m = 2 THEN (IF IsLeap(y) THEN 29 ELSE 28)
    ELSE IF m \in {4, 6, 9, 11} THEN 30 ELSE 31

\* A one- or two-digit field of the format whose value lies in lo..hi.
FieldOk(s, lo, hi) ==
    /\ AllDigits(s)
    /\ Len(s) <= 2
    /\ NumberIn(s, 10) >= lo
    /\ NumberIn(s, 10) <= hi

\* strptime: [ok |-> FALSE] stands for ValueError. %Y takes exactly four
\* digits; datetime() then refuses year 0, a day the month lacks and second 60.
strptime(s) ==
    LET halves == Split(s, " ")
        date   == Split(halves[1], ":")
        time   == Split(halves[2], ":")
        bad    == [ok |-> FALSE, y |-> 0, m |-> 0, d |-> 0]
    IN  IF Len(halves) # 2 THEN bad
        ELSE IF Len(date) # 3 \/ Len(time) # 3 THEN bad
        ELSE IF ~(AllDigits(date[1]) /\ Len(date[1]) = 4) THEN bad
        ELSE IF ~(FieldOk(date[2], 1, 12) /\ FieldOk(date[3], 1, 31)) THEN bad
        ELSE IF ~(FieldOk(time[1], 0, 23) /\ FieldOk(time[2], 0, 59)
                  /\ FieldOk(time[3], 0, 59)) THEN bad
        ELSE LET y == NumberIn(date[1], 10)
                 m == NumberIn(date[2], 10)
                 d == NumberIn(date[3], 10)
             IN  IF y < 1 \/ d > DaysInMonth(y, m) THEN bad
                 ELSE [ok |-> TRUE, y |-> y, m |-> m, d |-> d]

\* The decimal digits of n, zero-padded to the given width.
RECURSIVE ZeroPad(_, _)
ZeroPad(n, width) ==
    IF width = 0 THEN <<>>
    ELSE ZeroPad(n \div 10, width - 1) \o <<Digits[(n % 10) + 1]>>

\* strftime('%Y<nian>%m<yue>%d<ri>'); the three CJK characters of the format
\* are written "nian", "yue", "ri".
strftime(dt) ==
    ZeroPad(dt.y, 4) \o <<"nian">> \o ZeroPad(dt.m, 2) \o <<"yue">>
        \o ZeroPad(dt.d, 2) \o <<"ri">>

(***************************************************************************)
(* extract_exif_datetime                                                    *)
(***************************************************************************)
\* Python's None as a value of the same kind as a string.
None == <<"<None>">>

datetime_fields ==
    <<"EXIF DateTimeOriginal", "EXIF DateTimeDigitized", "EXIF DateTime",
      "Image DateTime">>

\* The loop with `return None` where the code has `continue`: a tag that is
\* present and does not parse ends the search.
RECURSIVE ScanFieldsNoContinue(_, _)
ScanFieldsNoContinue(tags, i) ==
    IF i > 4 THEN None
    ELSE LET names == <<"EXIF DateTimeOriginal", "EXIF DateTimeDigitized",
                        "EXIF DateTime", "Image DateTime">>
             field == names[i]
             dt    == strptime(tags[field])
         IN  IF field \in DOMAIN tags
                /\ (\E k \in 1..Len(tags[field]) : tags[field][k] = ":")
             THEN (IF dt.ok THEN strftime(dt) ELSE None)
             ELSE ScanFieldsNoContinue(tags, i + 1)

\* The for loop over datetime_fields from position i on: the formatted date of
\* the first field that is in tags, holds a ':' and parses; None when the loop
\* ends without returning.
RECURSIVE ScanFields(_, _)
ScanFields(tags, i) ==
    IF i > Len(datetime_fields) THEN None
    ELSE LET field == datetime_fields[i]
             dt    == strptime(tags[field])
         IN  IF field \in DOMAIN tags
                /\ (\E k \in 1..Len(tags[field]) : tags[field][k] = ":")
                /\ dt.ok
             THEN strftime(dt)
             ELSE ScanFields(tags, i + 1)

\* file: [readable, tags, stat_ok, mtime]. An exception of open() or of
\* exifread.process_file (readable = FALSE) or of os.path.getmtime
\* (stat_ok = FALSE) reaches the one except clause, which returns None.
extract_exif_datetime(file) ==
    LET found == ScanFields(file.tags, 1)
    IN  IF ~file.readable THEN None
        ELSE IF found # None THEN found
        ELSE IF ~file.stat_ok THEN None
        ELSE strftime(file.mtime)

(***************************************************************************)
(* get_position_coordinates                                                 *)
(***************************************************************************)
margin == 20

position_map(image_size, text_size, m) ==
    LET img_width   == image_size[1]
        img_height  == image_size[2]
        text_width  == text_size[1]
        text_height == text_size[2]
    IN  [p \in {"top-left", "top-right", "top-center", "center", "bottom-left",
                "bottom-right", "bottom-center"} |->
            CASE p = "top-left"      -> <<m, m>>
              [] p = "top-right"     -> <<img_width - text_width - m, m>>
              [] p = "top-center"    -> <<(img_width - text_width) \div 2, m>>
              [] p = "center"        -> <<(img_width - text_width) \div 2,
                                          (img_height - text_height) \div 2>>
              [] p = "bottom-left"   -> <<m, img_height - text_height - m>>
              [] p = "bottom-right"  -> <<img_width - text_width - m,
                                          img_height - text_height - m>>
              [] p = "bottom-center" -> <<(img_width - text_width) \div 2,
                                          img_height - text_height - m>>]

get_position_coordinates(position, image_size, text_size, m) ==
    LET map == position_map(image_size, text_size, m)
    IN  IF position \in DOMAIN map THEN map[position] ELSE map["bottom-right"]

(***************************************************************************)
(* parse_color                                                              *)
(***************************************************************************)
color_map ==
    { <<<<"w","h","i","t","e">>, <<255, 255, 255>>>>,
      <<<<"b","l","a","c","k">>, <<0, 0, 0>>>>,
      <<<<"r","e","d">>, <<255, 0, 0>>>>,
      <<<<"g","r","e","e","n">>, <<0, 255, 0>>>>,
      <<<<"b","l","u","e">>, <<0, 0, 255>>>>,
      <<<<"y","e","l","l","o","w">>, <<255, 255, 0>>>>,
      <<<<"c","y","a","n">>, <<0, 255, 255>>>>,
      <<<<"m","a","g","e","n","t","a">>, <<255, 0, 255>>>> }

\* The result of a call that may raise: exc is "none" or the exception.
Returned(v) == [exc |-> "none", val |-> v]

Raised(e) == [exc |-> e, val |-> <<>>]

HexPairs(hex_color) ==
    <<SubSeq(hex_color, 1, 2), SubSeq(hex_color, 3, 4), SubSeq(hex_color, 5, 6)>>

\* tuple(int(x, base) for x in parts): the first failing int() raises.
IntTuple(parts, base) ==
    IF \E i \in 1..Len(parts) : IntRaises(parts[i], base)
    THEN Raised("ValueError")
    ELSE Returned([i \in 1..Len(parts) |-> IntOf(parts[i], base)])

parse_color(color_str) ==
    LET hex_color  == Tail(color_str)
        rgb_values == Split(SubSeq(color_str, 5, Len(color_str) - 1), ",")
    IN  IF \E e \in color_map : e[1] = Lower(color_str)
        THEN Returned((CHOOSE e \in color_map : e[1] = Lower(color_str))[2])
        ELSE IF StartsWith(color_str, <<"#">>) /\ Len(hex_color) = 6
        THEN IntTuple(HexPairs(hex_color), 16)
        ELSE IF StartsWith(color_str, <<"r","g","b","(">>)
                /\ EndsWith(color_str, <<")">>) /\ Len(rgb_values) = 3
        THEN IntTuple(rgb_values, 10)
        ELSE Returned(<<255, 255, 255>>)

(***************************************************************************)
(* add_watermark                                                            *)
(***************************************************************************)
\* alpha = int(255 * opacity) for opacity = k / OpacityDenominator.
AlphaOf(k) == (255 * k) \div OpacityDenominator

\* image_path, output_path, watermark_text and font_size reach the result
\* through env only (what PIL reads, measures and writes).
\* env is what the call meets outside the program: whether PIL can decode the
\* image, the image's size, the measured text box, and how the final
\* watermarked.save(output_path) ends: "ok", "fail_clean" (it raises and no
\* file is left) or "fail_partial" (it raises after output_path was created
\* and written in part; the except clause removes nothing).
\* The result: ok (the returned bool), out (the state output_path is left in,
\* "none" when it was not touched), and the fill color and position used.
add_watermark(color, position, opacity, env) ==
    LET failed(out) == [ok |-> FALSE, out |-> out, fill |-> <<>>, xy |-> <<>>]
        xy          == get_position_coordinates(position, env.image_size,
                                                env.text_size, margin)
        rgb_color   == parse_color(color)
        rgba_color  == rgb_color.val \o <<AlphaOf(opacity)>>
    IN  IF ~env.decode_ok THEN failed("none")
        ELSE IF rgb_color.exc # "none" THEN failed("none")
        ELSE IF env.save = "fail_clean" THEN failed("none")
        ELSE IF env.save = "fail_partial" THEN failed("partial")
        ELSE [ok |-> TRUE, out |-> "full", fill |-> rgba_color, xy |-> xy]

(***************************************************************************)
(* The inputs the model draws from.                                         *)
(***************************************************************************)
\* Entries of the input directory tree, in the order the directory lists
\* them; nested = TRUE for an entry lying in a subdirectory.
NameUniverse ==
    << [name |-> <<"a",".","j","p","g">>,     nested |-> FALSE],
       [name |-> <<"a",".","J","P","G">>,     nested |-> FALSE],
       [name |-> <<"a",".","J","p","g">>,     nested |-> FALSE],
       [name |-> <<"b",".","P","n","G">>,     nested |-> FALSE],
       [name |-> <<"c",".","j","p","e","g">>, nested |-> FALSE],
       [name |-> <<"e",".","T","I","F","F">>, nested |-> FALSE],
       [name |-> <<"g",".","t","x","t">>,     nested |-> FALSE],
       [name |-> <<"h",".","b","m","p">>,     nested |-> TRUE] >>

Entries == {NameUniverse[i] : i \in 1..Len(NameUniverse)}

NoTags == [f \in {} |-> <<>>]

ValidStamp ==
    <<"2","0","2","4",":","0","1",":","1","5"," ","1","0",":","3","0",":","0","0">>

\* Files of a batch run: one that yields a date (it carries a capture date),
\* and one that yields None (it cannot be opened: unreadable, or a directory
\* named like an image).
BatchFiles ==
    { [readable |-> TRUE, tags |-> [f \in {"EXIF DateTimeOriginal"} |-> ValidStamp],
       stat_ok |-> TRUE, mtime |-> [y |-> 2023, m |-> 7, d |-> 9]],
      [readable |-> FALSE, tags |-> NoTags,
       stat_ok |-> TRUE, mtime |-> [y |-> 2023, m |-> 7, d |-> 9]] }

White == <<"w","h","i","t","e">>

BadHex == <<"#","G","G","G","G","G","G">>

BatchConfigs ==
    [color : {White, BadHex}, position : {"bottom-right"}, opacity : {80}]

SaveOutcomes == {"ok", "fail_clean", "fail_partial"}

BatchEnvs ==
    [decode_ok : BOOLEAN, image_size : {<<1000, 800>>}, text_size : {<<100, 40>>},
     save : SaveOutcomes]

\* A file system whose names are case-insensitive holds no two names that
\* differ in case only.
NamesCoexist(S, insensitive) ==
    \A e1, e2 \in S :
        (insensitive /\ e1.nested = e2.nested /\ Lower(e1.name) = Lower(e2.name))
            => e1 = e2

Directories(insensitive) ==
    UNION { [S -> BatchFiles] :
              S \in {T \in SUBSET Entries :
                        Cardinality(T) <= MaxFiles /\ NamesCoexist(T, insensitive)} }

(***************************************************************************)
(* process_directory                                                        *)
(***************************************************************************)
\* The names input_path.glob(pattern) yields: the direct entries of the
\* directory that match, in listing order.
Glob(d, ext, insensitive) ==
    LET Hit(e) == e \in DOMAIN d /\ ~e.nested /\ GlobMatches(e.name, ext, insensitive)
        hits   == SelectSeq(NameUniverse, Hit)
    IN  [i \in 1..Len(hits) |-> hits[i].name]

\* The loop over self.supported_formats from position i on: for each ext the
\* matches of '*' + ext, then those of '*' + ext.upper().
RECURSIVE CollectImages(_, _, _)
CollectImages(d, insensitive, i) ==
    IF i > Len(supported_formats) THEN <<>>
    ELSE Glob(d, supported_formats[i], insensitive)
            \o Glob(d, Upper(supported_formats[i]), insensitive)
            \o CollectImages(d, insensitive, i + 1)

FileNamed(d, name) == d[CHOOSE e \in DOMAIN d : ~e.nested /\ e.name = name]

\* output_path / f"{image_file.stem}_watermark{image_file.suffix}"
output_file(name) ==
    stem(name) \o <<"_","w","a","t","e","r","m","a","r","k">> \o suffix(name)

Written(outs, name, state) ==
    [n \in DOMAIN outs \cup {name} |-> IF n = name THEN state ELSE outs[n]]

\* `if not datetime_str`: None and the empty string are both false.
Falsy(datetime_str) == datetime_str = None \/ datetime_str = <<>>

\* What extract_exif_datetime returns for each file of a batch, and what
\* add_watermark returns for each configuration and environment: the two
\* calls of the loop body, tabulated once.
datetime_str_of == [file \in BatchFiles |-> extract_exif_datetime(file)]

watermark_result ==
    [c \in BatchConfigs, env \in BatchEnvs |->
        add_watermark(c.color, c.position, c.opacity, env)]

Init ==
    /\ caseInsensitive \in BOOLEAN
    /\ dir \in Directories(caseInsensitive)
    /\ cfg \in BatchConfigs
    /\ pc = "start"
    /\ image_files = <<>>
    /\ idx = 0
    /\ success_count = 0
    /\ fail_count = 0
    /\ outputs = [n \in {} |-> "full"]
    /\ extract_calls = <<>>
    /\ watermark_calls = <<>>
    /\ retval = <<>>
    /\ arg = <<>>
    /\ ret = <<>>

\* Lines 241-258 when no file matches: the early return of (0, 0).
NoImages ==
    /\ pc = "start"
    /\ CollectImages(dir, caseInsensitive, 1) = <<>>
    /\ image_files' = <<>>
    /\ success_count' = 0
    /\ fail_count' = 0
    /\ retval' = <<0, 0>>
    /\ pc' = "done"
    /\ UNCHANGED <<caseInsensitive, dir, cfg, idx, outputs, extract_calls,
                   watermark_calls, arg, ret>>

\* Lines 241-260 when a file matches: the loop is entered.
Enumerate ==
    /\ pc = "start"
    /\ LET found == CollectImages(dir, caseInsensitive, 1)
       IN  found # <<>> /\ image_files' = found
    /\ success_count' = 0
    /\ fail_count' = 0
    /\ idx' = 1
    /\ pc' = "loop"
    /\ UNCHANGED <<caseInsensitive, dir, cfg, outputs, extract_calls,
                   watermark_calls, retval, arg, ret>>

InLoop == pc = "loop" /\ idx >= 1 /\ idx <= Len(image_files)

\* The skip branch counting the file as a success.
SkipFileCountsSuccess ==
    /\ InLoop
    /\ Falsy(datetime_str_of[FileNamed(dir, image_files[idx])])
    /\ extract_calls' = Append(extract_calls, idx)
    /\ success_count' = success_count + 1
    /\ idx' = idx + 1
    /\ UNCHANGED <<caseInsensitive, dir, cfg, pc, image_files, fail_count,
                   outputs, watermark_calls, retval, arg, ret>>

\* Lines 262-270: extract_exif_datetime returned nothing; the file is skipped.
SkipFile ==
    /\ InLoop
    /\ Falsy(datetime_str_of[FileNamed(dir, image_files[idx])])
    /\ extract_calls' = Append(extract_calls, idx)
    /\ fail_count' = fail_count + 1
    /\ idx' = idx + 1
    /\ UNCHANGED <<caseInsensitive, dir, cfg, pc, image_files, success_count,
                   outputs, watermark_calls, retval, arg, ret>>

\* Lines 262-279: add_watermark returned True.
WatermarkSucceeded ==
    /\ InLoop
    /\ ~Falsy(datetime_str_of[FileNamed(dir, image_files[idx])])
    /\ \E env \in BatchEnvs :
          LET r == watermark_result[cfg, env]
          IN  /\ r.ok
              /\ outputs' = Written(outputs, output_file(image_files[idx]), r.out)
    /\ extract_calls' = Append(extract_calls, idx)
    /\ watermark_calls' = Append(watermark_calls, idx)
    /\ success_count' = success_count + 1
    /\ idx' = idx + 1
    /\ UNCHANGED <<caseInsensitive, dir, cfg, pc, image_files, fail_count,
                   retval, arg, ret>>

\* add_watermark without its except clause: the exception leaves the loop and
\* process_directory, and the remaining files are never processed.
WatermarkFailedAborts ==
    /\ InLoop
    /\ ~Falsy(datetime_str_of[FileNamed(dir, image_files[idx])])
    /\ \E env \in BatchEnvs :
          LET r == watermark_result[cfg, env]
          IN  /\ ~r.ok
              /\ outputs' = IF r.out = "none" THEN outputs
                            ELSE Written(outputs, output_file(image_files[idx]), r.out)
    /\ extract_calls' = Append(extract_calls, idx)
    /\ watermark_calls' = Append(watermark_calls, idx)
    /\ pc' = "done"
    /\ UNCHANGED <<caseInsensitive, dir, cfg, image_files, idx, success_count,
                   fail_count, retval, arg, ret>>

\* Lines 262-281: add_watermark caught an exception and returned False.
WatermarkFailed ==
    /\ InLoop
    /\ ~Falsy(datetime_str_of[FileNamed(dir, image_files[idx])])
    /\ \E env \in BatchEnvs :
          LET r == watermark_result[cfg, env]
          IN  /\ ~r.ok
              /\ outputs' = IF r.out = "none" THEN outputs
                            ELSE Written(outputs, output_file(image_files[idx]), r.out)
    /\ extract_calls' = Append(extract_calls, idx)
    /\ watermark_calls' = Append(watermark_calls, idx)
    /\ fail_count' = fail_count + 1
    /\ idx' = idx + 1
    /\ UNCHANGED <<caseInsensitive, dir, cfg, pc, image_files, success_count,
                   retval, arg, ret>>

\* Line 283: the loop is over.
Return ==
    /\ pc = "loop"
    /\ idx > Len(image_files)
    /\ retval' = <<success_count, fail_count>>
    /\ pc' = "done"
    /\ UNCHANGED <<caseInsensitive, dir, cfg, image_files, idx, success_count,
                   fail_count, outputs, extract_calls, watermark_calls, arg, ret>>

Next == NoImages \/ Enumerate \/ SkipFile \/ WatermarkSucceeded \/ WatermarkFailed \/ Return

Spec == Init /\ [][Next]_vars

\* The loop body and the return are straight-line code: a step that can be
\* taken is taken.
FairSpec == Spec /\ WF_vars(Next)

(***************************************************************************)
(* Single calls of extract_exif_datetime and of add_watermark, on inputs    *)
(* drawn from bounded sets.                                                 *)
(***************************************************************************)
OtherStamp ==
    <<"2","0","2","3",":","1","2",":","3","1"," ","2","3",":","5","9",":","5","9">>

\* strptime takes fields that are not zero-padded.
ShortStamp == <<"2","0","2","4",":","1",":","5"," ","1",":","2",":","3">>

\* Present, with colons, and no date: what cameras without a clock write.
ZeroStamp ==
    <<"0","0","0","0",":","0","0",":","0","0"," ","0","0",":","0","0",":","0","0">>

\* 2023 is not a leap year.
BadDayStamp ==
    <<"2","0","2","3",":","0","2",":","2","9"," ","0","8",":","0","0",":","0","0">>

NoColonStamp == <<"u","n","k","n","o","w","n">>

TagValues == {ValidStamp, OtherStamp, ShortStamp, ZeroStamp, BadDayStamp, NoColonStamp}

FieldNames == {datetime_fields[i] : i \in 1..Len(datetime_fields)}

TagSets == UNION { [S -> TagValues] : S \in SUBSET FieldNames }

Mtimes == { [y |-> 2023, m |-> 7, d |-> 9], [y |-> 2024, m |-> 11, d |-> 30] }

ExtractFiles ==
    [readable : BOOLEAN, tags : TagSets, stat_ok : BOOLEAN, mtime : Mtimes]

ColorSamples ==
    { White,
      <<"r","e","d">>,
      <<"R","E","D">>,
      <<"#","0","0","F","F","0","0">>,
      <<"#","1","a","2","B","3","c">>,
      BadHex,
      <<"#","F","F","F">>,
      <<"r","g","b","(","1","0",","," ","2","0",","," ","3","0",")">>,
      <<"r","g","b","(","1",",","2",")">>,
      <<"r","g","b","(","a",",","b",",","c",")">>,
      <<"b","o","g","u","s">> }

PositionSamples ==
    {"top-left", "top-right", "top-center", "center", "bottom-left",
     "bottom-right", "bottom-center", "foo"}

RenderEnvs ==
    [decode_ok : BOOLEAN, image_size : {<<1000, 800>>, <<51, 31>>},
     text_size : {<<100, 40>>}, save : SaveOutcomes]

RenderArgs ==
    [color : ColorSamples, position : PositionSamples,
     opacity : 0..OpacityDenominator, env : RenderEnvs]

\* The batch variables of a specification that makes no batch run.
NoBatch ==
    /\ caseInsensitive = FALSE
    /\ dir = [e \in {} |-> <<>>]
    /\ cfg = [color |-> White, position |-> "bottom-right", opacity |-> 80]
    /\ image_files = <<>>
    /\ idx = 0
    /\ success_count = 0
    /\ fail_count = 0
    /\ outputs = [n \in {} |-> "full"]
    /\ extract_calls = <<>>
    /\ watermark_calls = <<>>
    /\ retval = <<>>

InitExtract ==
    /\ NoBatch
    /\ pc = "extract_call"
    /\ arg \in ExtractFiles
    /\ ret = <<>>

CallExtract ==
    /\ pc = "extract_call"
    /\ ret' = extract_exif_datetime(arg)
    /\ pc' = "extract_done"
    /\ UNCHANGED <<batchVarsButPc, arg>>

NextExtract == CallExtract

SpecExtract == InitExtract /\ [][NextExtract]_vars

InitRender ==
    /\ NoBatch
    /\ pc = "render_call"
    /\ arg \in RenderArgs
    /\ ret = <<>>

CallAddWatermark ==
    /\ pc = "render_call"
    /\ ret' = add_watermark(arg.color, arg.position, arg.opacity, arg.env)
    /\ pc' = "render_done"
    /\ UNCHANGED <<batchVarsButPc, arg>>

NextRender == CallAddWatermark

SpecRender == InitRender /\ [][NextRender]_vars

(***************************************************************************)
(* What the claims are stated with.                                         *)
(***************************************************************************)
SupportedSuffixes == {supported_formats[i] : i \in 1..Len(supported_formats)}

\* The entries directly inside the input directory whose extension, compared
\* case-insensitively, is a supported one.
SupportedEntries ==
    {e \in DOMAIN dir : ~e.nested /\ Lower(suffix(e.name)) \in SupportedSuffixes}

EnumeratedNames == {image_files[i] : i \in 1..Len(image_files)}

UpTo(n) == [i \in 1..n |-> i]

\* The display strings of the sampled EXIF values that are dates, and of the
\* sampled modification dates, written out by hand.
DisplayTable ==
    { <<ValidStamp, <<"2","0","2","4","nian","0","1","yue","1","5","ri">>>>,
      <<OtherStamp, <<"2","0","2","3","nian","1","2","yue","3","1","ri">>>>,
      <<ShortStamp, <<"2","0","2","4","nian","0","1","yue","0","5","ri">>>> }

MtimeTable ==
    { <<[y |-> 2023, m |-> 7, d |-> 9],
        <<"2","0","2","3","nian","0","7","yue","0","9","ri">>>>,
      <<[y |-> 2024, m |-> 11, d |-> 30],
        <<"2","0","2","4","nian","1","1","yue","3","0","ri">>>> }

IsDate(v) == \E e \in DisplayTable : e[1] = v

DisplayOf(v) == (CHOOSE e \in DisplayTable : e[1] = v)[2]

MtimeDisplay(t) == (CHOOSE e \in MtimeTable : e[1] = t)[2]

PriorityOrder ==
    <<"EXIF DateTimeOriginal", "EXIF DateTimeDigitized", "EXIF DateTime",
      "Image DateTime">>

\* The positions of the priority order whose tag is present and is a date.
UsableTags(tags) ==
    {i \in 1..Len(PriorityOrder) :
        PriorityOrder[i] \in DOMAIN tags /\ IsDate(tags[PriorityOrder[i]])}

FirstOf(S) == CHOOSE i \in S : \A j \in S : i <= j

(***************************************************************************)
(* C1: in a run where every supported file of the directory was enumerated, *)
(* got a date and was watermarked without failure, process_directory        *)
(* returns (N, 0) for the N supported files, no file is enumerated twice,   *)
(* and the output directory holds exactly the N files                       *)
(* {stem}_watermark{suffix}, each fully written.                            *)
(***************************************************************************)
C1_AllSucceed ==
    (/\ pc = "done"
     /\ fail_count = 0
     /\ \A e \in SupportedEntries : e.name \in EnumeratedNames)
    => LET N == Cardinality(SupportedEntries)
       IN  /\ retval = <<N, 0>>
           /\ Len(image_files) = N
           /\ DOMAIN outputs = {output_file(e.name) : e \in SupportedEntries}
           /\ Cardinality(DOMAIN outputs) = N
           /\ \A n \in DOMAIN outputs : outputs[n] = "full"

(***************************************************************************)
(* C2: whatever the per-file outcomes, inside the loop success_count +      *)
(* fail_count equals the number of list entries already processed, each     *)
(* entry is processed once and in turn, and the run eventually returns      *)
(* with success_count + fail_count equal to the length of the enumerated    *)
(* list.                                                                    *)
(***************************************************************************)
C2_BatchCompletes ==
    /\ [](pc = "loop" => /\ success_count + fail_count = idx - 1
                         /\ extract_calls = UpTo(idx - 1))
    /\ <>(/\ pc = "done"
          /\ success_count + fail_count = Len(image_files)
          /\ extract_calls = UpTo(Len(image_files))
          /\ retval = <<success_count, fail_count>>)

\* A finished run that saw a skipped file, a failed render and a success.
C2_MixedRun ==
    /\ pc = "done"
    /\ success_count >= 1
    /\ Len(watermark_calls) > success_count
    /\ Len(extract_calls) > Len(watermark_calls)
    /\ success_count + fail_count = Len(image_files)

(***************************************************************************)
(* C3: when opening the file or reading its tags raises, the result is the  *)
(* formatted modification date, and None only if reading the modification   *)
(* time fails too.                                                          *)
(***************************************************************************)
C3_ErrorFallsBack ==
    (pc = "extract_done" /\ ~arg.readable)
    => ret = (IF arg.stat_ok THEN MtimeDisplay(arg.mtime) ELSE None)

(***************************************************************************)
(* C4: the enumerated files are exactly the entries directly inside the     *)
(* input directory whose extension is, in any casing, a supported one.      *)
(***************************************************************************)
C4_CaseInsensitiveScan ==
    pc # "start" => EnumeratedNames = {e.name : e \in SupportedEntries}

(***************************************************************************)
(* C5: parse_color raises for no colour specification, an unknown position  *)
(* keyword is placed bottom-right, and add_watermark, given an image it can *)
(* decode and a save that works, reports success whatever the colour and    *)
(* position arguments are.                                                  *)
(***************************************************************************)
C5_ParseNeverSurfaces ==
    pc = "render_done"
    => /\ parse_color(arg.color).exc = "none"
       /\ (arg.position = "foo" /\ ret.ok)
            => ret.xy = <<arg.env.image_size[1] - arg.env.text_size[1] - 20,
                          arg.env.image_size[2] - arg.env.text_size[2] - 20>>
       /\ (arg.env.decode_ok /\ arg.env.save = "ok") => ret.ok

(***************************************************************************)
(* C6: a step of the loop taken for a file whose extraction returned None   *)
(* adds one to fail_count, leaves success_count alone, calls add_watermark  *)
(* for no file, writes no output and moves to the next file.                *)
(***************************************************************************)
C6_AbsentIsSkipped ==
    [][(InLoop /\ extract_exif_datetime(FileNamed(dir, image_files[idx])) = None)
        => /\ fail_count' = fail_count + 1
           /\ success_count' = success_count
           /\ watermark_calls' = watermark_calls
           /\ extract_calls' = Append(extract_calls, idx)
           /\ outputs' = outputs
           /\ idx' = idx + 1
           /\ pc' = "loop"]_vars

\* A file has been skipped, no output was written, and a file remains.
C6_SkippedOne ==
    /\ InLoop
    /\ idx = 2
    /\ extract_exif_datetime(FileNamed(dir, image_files[1])) = None
    /\ fail_count = 1
    /\ watermark_calls = <<>>
    /\ DOMAIN outputs = {}

C8_EmptyReturnsAtOnce ==
    (SupportedEntries = {} /\ pc # "start")
    => /\ pc = "done"
       /\ retval = <<0, 0>>
       /\ extract_calls = <<>>
       /\ watermark_calls = <<>>
       /\ DOMAIN outputs = {}

\* A directory that holds entries, none of them a supported image.
C8_NothingToDo ==
    /\ pc = "done"
    /\ Cardinality(DOMAIN dir) = 2
    /\ SupportedEntries = {}
    /\ retval = <<0, 0>>

(***************************************************************************)
(* C9: the alpha of the fill color is 255 * opacity rounded to the nearest  *)
(* integer.                                                                 *)
(***************************************************************************)
C9_AlphaIsRounded ==
    (pc = "render_done" /\ ret.ok)
    => LET diff == ret.fill[4] * OpacityDenominator - 255 * arg.opacity
       IN  2 * diff <= OpacityDenominator /\ 2 * (0 - diff) <= OpacityDenominator

(***************************************************************************)
(* C10: every output file the run has written is a fully written one.       *)
(***************************************************************************)
C10_NoPartialOutput == \A n \in DOMAIN outputs : outputs[n] = "full"

====
